---- MODULE Spec2Model ----
(***************************************************************************)
(* The frame-wise violation-of-expectation detector of                     *)
(* src/physicsvoe/framewisevoe.py (class FramewiseVOE) as a state machine. *)
(* The detector's fields are the state; record_obs and detect are the      *)
(* actions.  The position predictor (self.net, ThorNLLS) is external: its  *)
(* answer is a nondeterministic choice.  The heat map functions of the     *)
(* module and the caller that runs scene after scene come with it.         *)
(***************************************************************************)
EXTENDS Integers, Sequences, FiniteSets, TLC

VARIABLES
    frame_history,   \* self.frame_history: dict time -> (ids, pos, present), in insertion order
    all_ids,         \* self.all_ids: set of object ids
    dist_thresh,     \* self.dist_thresh
    min_hist_count,  \* self.min_hist_count
    max_hist_count,  \* self.max_hist_count
    net,             \* self.net: the position predictor the detector was built with
    call,            \* the last call made on the detector and its arguments
    net_calls,       \* the invocations of self.net made by the last call
    pred_info,       \* what predict returned inside the last detect call
    ret,             \* how the last call ended
    driver           \* the caller's locals: the scene it runs, its frame_num, what
                     \* the last frame gave and the verdicts so far

vars == <<frame_history, all_ids, dist_thresh, min_hist_count, max_hist_count, net,
          call, net_calls, pred_info, ret, driver>>

\* The Detector State: the fields __init__ sets.
state == <<frame_history, all_ids, dist_thresh, min_hist_count, max_hist_count, net>>

----------------------------------------------------------------------------
\* Bounds of the model.

\* Frame times are 0..MaxTime, so a history holds at most MaxTime + 1 frames.
MaxTime == 1

Times == 0 .. MaxTime

\* The object ids of a scene.
Ids == {1, 2}

\* The values of min_hist_count and max_hist_count.
HistCounts == {0, 1, 2}

\* Positions are 3-vectors; the model takes them from the x axis.
Origin == <<0, 0, 0>>

UnitX == <<1, 0, 0>>

TwoX == <<2, 0, 0>>

Positions == {Origin, UnitX, TwoX}

\* dist_thresh is 0 or 1: between two of Positions the distance is below,
\* at and above a threshold of 1.
Thresholds == {0, 1}

\* The thresholds both callers build the detector with.  dist_thresh is 0.5
\* in run_scene: a scene's lengths are counted in units of 0.5, which makes
\* dist_thresh 1 and the position (1, 0, 0) TwoX.
MinHistCount == 3

MaxHistCount == 8

\* The frames of the recorded scenario are those of the times below
\* ScenarioFrames, and a scene of the driver has at most as many frames.
ScenarioFrames == 5

\* The scenes a run goes through.
MaxScenes == 2

----------------------------------------------------------------------------
\* Helpers for Python's built-ins.

Range(s) == {s[k] : k \in DOMAIN s}

Min(a, b) == IF a <= b THEN a ELSE b

\* Sequences over S without repetition, of every length (a list of distinct ids).
RECURSIVE Orderings(_)
Orderings(S) ==
    IF S = {} THEN {<<>>}
    ELSE UNION {{<<x>> \o s : s \in Orderings(S \ {x})} : x \in S}

DistinctSeqs(S) == UNION {Orderings(T) : T \in SUBSET S}

\* list.count
Count(s, x) == Cardinality({k \in DOMAIN s : s[k] = x})

\* list.index: the first position holding x
Index(s, x) == CHOOSE k \in DOMAIN s : s[k] = x /\ \A j \in 1 .. (k - 1) : s[j] # x

\* sorted(comb, key=lambda x: x[0], reverse=True): Python's sort is stable, and
\* with reverse=True elements of equal key keep their original order.
InsertDesc(s, x) ==
    LET k == Cardinality({j \in DOMAIN s : s[j].time >= x.time})
    IN  SubSeq(s, 1, k) \o <<x>> \o SubSeq(s, k + 1, Len(s))

\* SortedDesc without reverse=True: oldest first.
InsertAsc(s, x) ==
    LET k == Cardinality({j \in DOMAIN s : s[j].time <= x.time})
    IN  SubSeq(s, 1, k) \o <<x>> \o SubSeq(s, k + 1, Len(s))

RECURSIVE SortedAsc(_)
SortedAsc(s) ==
    IF s = <<>> THEN <<>>
    ELSE InsertAsc(SortedAsc(SubSeq(s, 1, Len(s) - 1)), s[Len(s)])

RECURSIVE SortedDesc(_)
SortedDesc(s) ==
    IF s = <<>> THEN <<>>
    ELSE InsertDesc(SortedDesc(SubSeq(s, 1, Len(s) - 1)), s[Len(s)])

\* torch.dist(a, b) > th, on integer coordinates: the Euclidean distance
\* exceeds th >= 0 exactly when its square exceeds th * th.
Dist2(a, b) ==
    (a[1] - b[1]) * (a[1] - b[1]) + (a[2] - b[2]) * (a[2] - b[2])
        + (a[3] - b[3]) * (a[3] - b[3])

\* DistExceeds with >= for >.
DistExceeds_ge(a, b, th) == Dist2(a, b) >= th * th

DistExceeds(a, b, th) == Dist2(a, b) > th * th

----------------------------------------------------------------------------
\* FramewiseVOE._get_inputs, lines 62-71: the (time, id, pos) triples of the
\* observations with present = true, frame by frame in insertion order.
\* FrameObs without the "if not present: continue" of lines 67-68.
FrameObs_all(frame) ==
    LET n == Min(Len(frame.ids), Min(Len(frame.pos), Len(frame.present)))
    IN  [k \in 1 .. n |->
            [time |-> frame.time, id |-> frame.ids[k], pos |-> frame.pos[k]]]

FrameObs(frame) ==
    LET n == Min(Len(frame.ids), Min(Len(frame.pos), Len(frame.present)))
        zipped == [k \in 1 .. n |->
                      [time |-> frame.time, id |-> frame.ids[k],
                       pos |-> frame.pos[k], present |-> frame.present[k]]]
        kept == SelectSeq(zipped, LAMBDA o : o.present)
    IN  [k \in 1 .. Len(kept) |->
            [time |-> kept[k].time, id |-> kept[k].id, pos |-> kept[k].pos]]

RECURSIVE PresentObs(_)
PresentObs(hist) ==
    IF hist = <<>> THEN <<>>
    ELSE FrameObs(Head(hist)) \o PresentObs(Tail(hist))

\* Walk with obj_count[i] <= max_hist_count for <.
RECURSIVE Walk_inclusive(_, _, _, _)
Walk_inclusive(comb, obj_count, obj_valid, maxc) ==
    IF comb = <<>> THEN <<>>
    ELSE LET x == Head(comb)
         IN  IF obj_count[x.id] <= maxc /\ obj_valid[x.id]
             THEN <<x>> \o Walk_inclusive(Tail(comb),
                                [obj_count EXCEPT ![x.id] = @ + 1], obj_valid, maxc)
             ELSE Walk_inclusive(Tail(comb), obj_count, obj_valid, maxc)

\* FramewiseVOE._filter_inputs, lines 91-96: the walk over the sorted list.
RECURSIVE Walk(_, _, _, _)
Walk(comb, obj_count, obj_valid, maxc) ==
    IF comb = <<>> THEN <<>>
    ELSE LET x == Head(comb)
         IN  IF obj_count[x.id] < maxc /\ obj_valid[x.id]
             THEN <<x>> \o Walk(Tail(comb),
                                [obj_count EXCEPT ![x.id] = @ + 1], obj_valid, maxc)
             ELSE Walk(Tail(comb), obj_count, obj_valid, maxc)

\* FramewiseVOE._filter_inputs: comb is zip(time_l, id_l, pos_l).
filter_inputs(comb, minc, maxc) ==
    IF comb = <<>> THEN comb
    ELSE LET id_l == [k \in DOMAIN comb |-> comb[k].id]
             obj_valid == [i \in Range(id_l) |-> Count(id_l, i) >= minc]
             obj_count == [i \in Range(id_l) |-> 0]
         IN  Walk(SortedDesc(comb), obj_count, obj_valid, maxc)

\* get_inputs without the "return None" of lines 73-74.
get_inputs_noshort ==
    LET f == filter_inputs(PresentObs(frame_history), min_hist_count, max_hist_count)
    IN  [none |-> FALSE,
         obj_pos |-> [k \in DOMAIN f |-> f[k].pos],
         obj_ts |-> [k \in DOMAIN f |-> f[k].time],
         obj_ids |-> [k \in DOMAIN f |-> f[k].id]]

\* FramewiseVOE._get_inputs: None when the filtered lists are empty, else the
\* training tensors (obj_pos, obj_ts, obj_ids); obj_mask is all ones.
get_inputs ==
    LET f == filter_inputs(PresentObs(frame_history), min_hist_count, max_hist_count)
    IN  IF Len(f) = 0
        THEN [none |-> TRUE, obj_pos |-> <<>>, obj_ts |-> <<>>, obj_ids |-> <<>>]
        ELSE [none |-> FALSE,
              obj_pos |-> [k \in DOMAIN f |-> f[k].pos],
              obj_ts |-> [k \in DOMAIN f |-> f[k].time],
              obj_ids |-> [k \in DOMAIN f |-> f[k].id]]

\* get_targets that pairs the k-th id with k instead of the query time.
get_targets_enumerated(time, order) ==
    [tgt_ts |-> [k \in DOMAIN order |-> k - 1], tgt_ids |-> order]

\* FramewiseVOE._get_targets: list(self.all_ids) is the set in its iteration
\* order, which the language leaves open: order is any ordering of all_ids.
get_targets(time, order) ==
    [tgt_ts |-> [k \in DOMAIN order |-> time], tgt_ids |-> order]

\* What self.net answers for a query of m targets.  The predictor is not part
\* of the repository's sources: a "stub" answers the origin for every target
\* (the test double of the spec's end-to-end scenario); an "arbitrary" one
\* answers any position per target, or one position too few (a predictor that
\* breaks its contract), or raises (NetRaises).
NetPositions(kind, m) ==
    IF kind = "stub" THEN {[k \in 1 .. m |-> Origin]}
    ELSE UNION {[1 .. n -> Positions] : n \in {k \in {m - 1, m} : k >= 0}}

NetRaises(kind) == kind = "arbitrary"

\* predict returned None, or the net's exception went through it.
NonePred == [kind |-> "None", ids |-> <<>>, pos |-> <<>>, mask |-> <<>>]

RaisedPred == [kind |-> "Exception", ids |-> <<>>, pos |-> <<>>, mask |-> <<>>]

\* predict_result with every queried id marked relevant.
predict_result_allrelevant(in_, tgt, pred_l) ==
    [kind |-> "tuple", ids |-> tgt.tgt_ids, pos |-> pred_l,
     mask |-> [k \in DOMAIN tgt.tgt_ids |-> TRUE]]

\* FramewiseVOE.predict, lines 33-37, after the net answered pred_l.
predict_result(in_, tgt, pred_l) ==
    LET ids_l == tgt.tgt_ids
        obj_ids == in_.obj_ids
        mask_l == [k \in DOMAIN ids_l |-> ids_l[k] \in Range(obj_ids)]
    IN  [kind |-> "tuple", ids |-> ids_l, pos |-> pred_l, mask |-> mask_l]

\* Compare without the else branch of lines 55-58: an absent id is skipped.
RECURSIVE Compare_nopresence(_, _, _, _, _)
Compare_nopresence(k, pi, actual_poss, actual_ids, th) ==
    IF k > Min(Len(pi.pos), Min(Len(pi.ids), Len(pi.mask))) THEN <<>>
    ELSE LET pred_pos == pi.pos[k]
             pred_id == pi.ids[k]
             rest == Compare_nopresence(k + 1, pi, actual_poss, actual_ids, th)
         IN  IF ~pi.mask[k] THEN rest
             ELSE IF pred_id \in Range(actual_ids)
             THEN LET actual_pos == actual_poss[Index(actual_ids, pred_id)]
                  IN  IF DistExceeds(actual_pos, pred_pos, th)
                      THEN <<[kind |-> "PositionViolation", object_id |-> pred_id,
                              pred_pos |-> pred_pos, actual_pos |-> actual_pos]>> \o rest
                      ELSE rest
             ELSE rest

\* Compare that puts each violation in front of the ones found before it.
RECURSIVE Compare_prepending(_, _, _, _, _)
Compare_prepending(k, pi, actual_poss, actual_ids, th) ==
    IF k > Min(Len(pi.pos), Min(Len(pi.ids), Len(pi.mask))) THEN <<>>
    ELSE LET pred_pos == pi.pos[k]
             pred_id == pi.ids[k]
             rest == Compare_prepending(k + 1, pi, actual_poss, actual_ids, th)
         IN  IF ~pi.mask[k] THEN rest
             ELSE IF pred_id \in Range(actual_ids)
             THEN LET actual_pos == actual_poss[Index(actual_ids, pred_id)]
                  IN  IF DistExceeds(actual_pos, pred_pos, th)
                      THEN rest \o <<[kind |-> "PositionViolation", object_id |-> pred_id,
                                      pred_pos |-> pred_pos, actual_pos |-> actual_pos]>>
                      ELSE rest
             ELSE rest \o <<[kind |-> "PresenceViolation", object_id |-> pred_id,
                             pred_pos |-> pred_pos]>>

\* Compare that builds PositionViolation(pred_id, actual_pos, pred_pos).
RECURSIVE Compare_swapped(_, _, _, _, _)
Compare_swapped(k, pi, actual_poss, actual_ids, th) ==
    IF k > Min(Len(pi.pos), Min(Len(pi.ids), Len(pi.mask))) THEN <<>>
    ELSE LET pred_pos == pi.pos[k]
             pred_id == pi.ids[k]
             rest == Compare_swapped(k + 1, pi, actual_poss, actual_ids, th)
         IN  IF ~pi.mask[k] THEN rest
             ELSE IF pred_id \in Range(actual_ids)
             THEN LET actual_pos == actual_poss[Index(actual_ids, pred_id)]
                  IN  IF DistExceeds(actual_pos, pred_pos, th)
                      THEN <<[kind |-> "PositionViolation", object_id |-> pred_id,
                              pred_pos |-> actual_pos, actual_pos |-> pred_pos]>> \o rest
                      ELSE rest
             ELSE <<[kind |-> "PresenceViolation", object_id |-> pred_id,
                     pred_pos |-> pred_pos]>> \o rest

\* FramewiseVOE.detect, lines 45-58: the loop over zip(pred_poss, pred_ids,
\* pred_masks), from its k-th element on.
RECURSIVE Compare(_, _, _, _, _)
Compare(k, pi, actual_poss, actual_ids, th) ==
    IF k > Min(Len(pi.pos), Min(Len(pi.ids), Len(pi.mask))) THEN <<>>
    ELSE LET pred_pos == pi.pos[k]
             pred_id == pi.ids[k]
             rest == Compare(k + 1, pi, actual_poss, actual_ids, th)
         IN  IF ~pi.mask[k] THEN rest
             ELSE IF pred_id \in Range(actual_ids)
             THEN LET actual_pos == actual_poss[Index(actual_ids, pred_id)]
                  IN  IF DistExceeds(actual_pos, pred_pos, th)
                      THEN <<[kind |-> "PositionViolation", object_id |-> pred_id,
                              pred_pos |-> pred_pos, actual_pos |-> actual_pos]>> \o rest
                      ELSE rest
             ELSE <<[kind |-> "PresenceViolation", object_id |-> pred_id,
                     pred_pos |-> pred_pos]>> \o rest

----------------------------------------------------------------------------
\* FramewiseVOE.__init__, for the thresholds and the predictor given.
init(minc, maxc, th, kind) ==
    /\ frame_history = <<>>
    /\ all_ids = {}
    /\ dist_thresh = th
    /\ min_hist_count = minc
    /\ max_hist_count = maxc
    /\ net = kind
    /\ call = [op |-> "__init__", time |-> 0, actual_poss |-> <<>>, actual_ids |-> <<>>]
    /\ net_calls = <<>>
    /\ pred_info = NonePred
    /\ ret = [kind |-> "returned", viols |-> <<>>]

\* record_obs without the assert of line 23: the dict assignment overwrites
\* the frame stored for the time, which keeps its place in the dict.
record_obs_overwrite(time, ids, pos, present) ==
    /\ call' = [op |-> "record_obs", time |-> time, actual_poss |-> <<>>, actual_ids |-> <<>>]
    /\ net_calls' = <<>>
    /\ pred_info' = NonePred
    /\ UNCHANGED <<dist_thresh, min_hist_count, max_hist_count, net>>
    /\ LET frame == [time |-> time, ids |-> ids, pos |-> pos, present |-> present]
       IN  frame_history' =
               IF \E k \in DOMAIN frame_history : frame_history[k].time = time
               THEN [k \in DOMAIN frame_history |->
                        IF frame_history[k].time = time THEN frame ELSE frame_history[k]]
               ELSE Append(frame_history, frame)
    /\ all_ids' = all_ids \union Range(ids)
    /\ ret' = [kind |-> "returned", viols |-> <<>>]

\* record_obs that registers only the ids seen present.
record_obs_presentonly(time, ids, pos, present) ==
    /\ call' = [op |-> "record_obs", time |-> time, actual_poss |-> <<>>, actual_ids |-> <<>>]
    /\ net_calls' = <<>>
    /\ pred_info' = NonePred
    /\ UNCHANGED <<dist_thresh, min_hist_count, max_hist_count, net>>
    /\ IF \E k \in DOMAIN frame_history : frame_history[k].time = time
       THEN /\ ret' = [kind |-> "AssertionError", viols |-> <<>>]
            /\ UNCHANGED <<frame_history, all_ids>>
       ELSE /\ frame_history' = Append(frame_history,
                   [time |-> time, ids |-> ids, pos |-> pos, present |-> present])
            /\ all_ids' = all_ids \union {ids[k] : k \in {j \in DOMAIN ids : present[j]}}
            /\ ret' = [kind |-> "returned", viols |-> <<>>]

\* record_obs that unions the ids into the registry before the assert.
record_obs_registerfirst(time, ids, pos, present) ==
    /\ call' = [op |-> "record_obs", time |-> time, actual_poss |-> <<>>, actual_ids |-> <<>>]
    /\ net_calls' = <<>>
    /\ pred_info' = NonePred
    /\ UNCHANGED <<dist_thresh, min_hist_count, max_hist_count, net>>
    /\ all_ids' = all_ids \union Range(ids)
    /\ IF \E k \in DOMAIN frame_history : frame_history[k].time = time
       THEN /\ ret' = [kind |-> "AssertionError", viols |-> <<>>]
            /\ UNCHANGED frame_history
       ELSE /\ frame_history' = Append(frame_history,
                   [time |-> time, ids |-> ids, pos |-> pos, present |-> present])
            /\ ret' = [kind |-> "returned", viols |-> <<>>]

\* record_obs that keeps only the frame it is given.
record_obs_replacing(time, ids, pos, present) ==
    /\ call' = [op |-> "record_obs", time |-> time, actual_poss |-> <<>>, actual_ids |-> <<>>]
    /\ net_calls' = <<>>
    /\ pred_info' = NonePred
    /\ UNCHANGED <<dist_thresh, min_hist_count, max_hist_count, net>>
    /\ IF \E k \in DOMAIN frame_history : frame_history[k].time = time
       THEN /\ ret' = [kind |-> "AssertionError", viols |-> <<>>]
            /\ UNCHANGED <<frame_history, all_ids>>
       ELSE /\ frame_history' =
                   <<[time |-> time, ids |-> ids, pos |-> pos, present |-> present]>>
            /\ all_ids' = all_ids \union Range(ids)
            /\ ret' = [kind |-> "returned", viols |-> <<>>]

\* FramewiseVOE.record_obs: the assert raises AssertionError before anything
\* is assigned.
record_obs(time, ids, pos, present) ==
    /\ call' = [op |-> "record_obs", time |-> time, actual_poss |-> <<>>, actual_ids |-> <<>>]
    /\ net_calls' = <<>>
    /\ pred_info' = NonePred
    /\ UNCHANGED <<dist_thresh, min_hist_count, max_hist_count, net>>
    /\ IF \E k \in DOMAIN frame_history : frame_history[k].time = time
       THEN /\ ret' = [kind |-> "AssertionError", viols |-> <<>>]
            /\ UNCHANGED <<frame_history, all_ids>>
       ELSE /\ frame_history' = Append(frame_history,
                   [time |-> time, ids |-> ids, pos |-> pos, present |-> present])
            /\ all_ids' = all_ids \union Range(ids)
            /\ ret' = [kind |-> "returned", viols |-> <<>>]

\* predict that invokes self.net a second time with the same arguments.
predict_retry(time) ==
    LET in_ == get_inputs
    IN  IF in_.none
        THEN /\ net_calls' = <<>>
             /\ pred_info' = NonePred
        ELSE \E order \in Orderings(all_ids) :
             LET tgt == get_targets(time, order)
                 args == [obj_pos |-> in_.obj_pos, obj_ts |-> in_.obj_ts,
                          obj_ids |-> in_.obj_ids,
                          tgt_ts |-> tgt.tgt_ts, tgt_ids |-> tgt.tgt_ids]
             IN  /\ net_calls' = <<args, args>>
                 /\ \/ \E pred_l \in NetPositions(net, Len(order)) :
                          pred_info' = predict_result(in_, tgt, pred_l)
                    \/ /\ NetRaises(net)
                       /\ pred_info' = RaisedPred

\* FramewiseVOE.predict: it sets what it returns (pred_info) and records the
\* one invocation of self.net it makes, if any.
predict(time) ==
    LET in_ == get_inputs
    IN  IF in_.none
        THEN /\ net_calls' = <<>>
             /\ pred_info' = NonePred
        ELSE \E order \in Orderings(all_ids) :
             LET tgt == get_targets(time, order)
             IN  /\ net_calls' = <<[obj_pos |-> in_.obj_pos, obj_ts |-> in_.obj_ts,
                                   obj_ids |-> in_.obj_ids,
                                   tgt_ts |-> tgt.tgt_ts, tgt_ids |-> tgt.tgt_ids]>>
                 /\ \/ \E pred_l \in NetPositions(net, Len(order)) :
                          pred_info' = predict_result(in_, tgt, pred_l)
                    \/ /\ NetRaises(net)
                       /\ pred_info' = RaisedPred

\* detect that registers the ids of the frame it is given.
detect_registering(time, actual_poss, actual_ids) ==
    /\ call' = [op |-> "detect", time |-> time,
                actual_poss |-> actual_poss, actual_ids |-> actual_ids]
    /\ predict(time)
    /\ ret' = CASE pred_info'.kind = "None" -> [kind |-> "None", viols |-> <<>>]
                [] pred_info'.kind = "Exception" -> [kind |-> "Exception", viols |-> <<>>]
                [] OTHER -> [kind |-> "list",
                             viols |-> Compare(1, pred_info', actual_poss, actual_ids,
                                               dist_thresh)]
    /\ all_ids' = all_ids \union Range(actual_ids)
    /\ UNCHANGED <<frame_history, dist_thresh, min_hist_count, max_hist_count, net>>

\* FramewiseVOE.detect: no statement of detect, predict, _get_inputs,
\* _filter_inputs or _get_targets assigns a field of self.
detect(time, actual_poss, actual_ids) ==
    /\ call' = [op |-> "detect", time |-> time,
                actual_poss |-> actual_poss, actual_ids |-> actual_ids]
    /\ predict(time)
    /\ ret' = CASE pred_info'.kind = "None" -> [kind |-> "None", viols |-> <<>>]
                [] pred_info'.kind = "Exception" -> [kind |-> "Exception", viols |-> <<>>]
                [] OTHER -> [kind |-> "list",
                             viols |-> Compare(1, pred_info', actual_poss, actual_ids,
                                               dist_thresh)]
    /\ UNCHANGED state

----------------------------------------------------------------------------
\* The heat map.  An object mask is the list of its pixels, each holding the id
\* of the object seen there or -1 where none is; a buffer is an ndarray of
\* booleans of the same shape.  What a function hands back is an ndarray, None,
\* or the TypeError it raised.
MaskValues == {-1} \union Ids

Masks == [1 .. 3 -> MaskValues]

Buffers == {[kind |-> "ndarray", px |-> px] : px \in [1 .. 3 -> BOOLEAN]}

NoneValue == [kind |-> "None", px |-> <<>>]

TypeError == [kind |-> "TypeError", px |-> <<>>]

\* PositionViolation.fill_heatmap: hmap + (obj_mask == self.object_id), which
\* on boolean arrays is the elementwise or; None + ndarray raises TypeError.
PositionViolation_fill_heatmap(v, hmap, obj_mask) ==
    IF hmap.kind = "ndarray"
    THEN [kind |-> "ndarray",
          px |-> [k \in DOMAIN obj_mask |-> hmap.px[k] \/ obj_mask[k] = v.object_id]]
    ELSE TypeError

\* PresenceViolation.fill_heatmap: its body is "pass", the call evaluates to
\* None.
PresenceViolation_fill_heatmap(v, hmap, obj_mask) == NoneValue

\* v.fill_heatmap(hmap, obj_mask), by the class of v.
fill_heatmap(v, hmap, obj_mask) ==
    IF v.kind = "PositionViolation"
    THEN PositionViolation_fill_heatmap(v, hmap, obj_mask)
    ELSE PresenceViolation_fill_heatmap(v, hmap, obj_mask)

\* np.zeros_like(obj_mask, dtype=bool).
zeros_like(obj_mask) ==
    [kind |-> "ndarray", px |-> [k \in DOMAIN obj_mask |-> FALSE]]

\* The loop of make_voe_heatmap from the k-th violation on; an exception of
\* fill_heatmap ends it.
RECURSIVE fill_all(_, _, _, _)
fill_all(viols, k, hmap, obj_mask) ==
    IF k > Len(viols) THEN hmap
    ELSE LET h == fill_heatmap(viols[k], hmap, obj_mask)
         IN  IF h.kind = "TypeError" THEN h
             ELSE fill_all(viols, k + 1, h, obj_mask)

\* make_voe_heatmap without "viols = viols or []": iterating None raises.
make_voe_heatmap_noguard(viols, obj_mask) ==
    IF viols.kind = "None" THEN TypeError
    ELSE fill_all(viols.viols, 1, zeros_like(obj_mask), obj_mask)

\* make_voe_heatmap: viols is what detect returned, None or a list.
make_voe_heatmap(viols, obj_mask) ==
    LET hmap == zeros_like(obj_mask)
        viols_l == IF viols.kind = "None" \/ viols.viols = <<>> THEN <<>> ELSE viols.viols
    IN  fill_all(viols_l, 1, hmap, obj_mask)

\* A call of make_voe_heatmap, and a call of fill_heatmap on a violation.
MakeVoeHeatmapCall(viols, obj_mask) ==
    /\ call' = [op |-> "make_voe_heatmap", viols |-> viols, obj_mask |-> obj_mask]
    /\ ret' = make_voe_heatmap(viols, obj_mask)
    /\ net_calls' = <<>>
    /\ pred_info' = NonePred
    /\ UNCHANGED <<state, driver>>

FillHeatmapCall(v, hmap, obj_mask) ==
    /\ call' = [op |-> "fill_heatmap", v |-> v, hmap |-> hmap, obj_mask |-> obj_mask]
    /\ ret' = fill_heatmap(v, hmap, obj_mask)
    /\ net_calls' = <<>>
    /\ pred_info' = NonePred
    /\ UNCHANGED <<state, driver>>

----------------------------------------------------------------------------
\* The calls a caller makes.  In every call the ids are distinct and pos and
\* present align with ids (calc_world_pos returns them aligned).  The scene
\* fixes where an object is at a time: PosAt, which differs between the ids
\* of a frame and between the frames of an id.
PosAt(time, id) == IF (time + id) % 2 = 0 THEN Origin ELSE UnitX

\* The id lists in ascending order.
RECURSIVE Ascending(_)
Ascending(S) ==
    IF S = {} THEN <<>>
    ELSE LET m == CHOOSE x \in S : \A y \in S : x <= y
         IN  <<m>> \o Ascending(S \ {m})

AscendingSeqs(S) == {Ascending(T) : T \in SUBSET S}

RecordObsCall(times) ==
    \E time \in times, ids \in AscendingSeqs(Ids) :
        \E present \in [DOMAIN ids -> BOOLEAN] :
            /\ record_obs(time, ids, [k \in DOMAIN ids |-> PosAt(time, ids[k])], present)
            /\ UNCHANGED driver

DetectCall(times, idseqs) ==
    \E time \in times, actual_ids \in idseqs :
        \E actual_poss \in [DOMAIN actual_ids -> Positions] :
            /\ detect(time, actual_poss, actual_ids)
            /\ UNCHANGED driver

\* The caller at the first frame of its scene-th scene.
FirstFrame(scene) ==
    [scene |-> scene, frame_num |-> 0, status |-> "running",
     scene_voe_detected |-> FALSE, verdicts |-> <<>>,
     step |-> "none", viols |-> [kind |-> "None", viols |-> <<>>],
     voe_hmap |-> NoneValue, printed |-> <<>>, choice |-> "", end_choice |-> ""]

\* The history side: any thresholds and any frames at any times, a stub
\* predictor, and detect calls for the last frame time that show no object.
InitRecord ==
    /\ \E minc \in HistCounts, maxc \in HistCounts : init(minc, maxc, 1, "stub")
    /\ driver = FirstFrame(1)

NextRecord ==
    \/ RecordObsCall(Times)
    \/ DetectCall({MaxTime}, {<<>>})

SpecRecord == InitRecord /\ [][NextRecord]_vars

\* The comparison side: an arbitrary predictor, any frame passed to detect for
\* the last frame time, any dist_thresh; frames are recorded at time 0 with
\* min_hist_count = max_hist_count = 1, which makes every subset of the
\* registry the set of backed ids.
InitDetect ==
    /\ \E th \in Thresholds : init(1, 1, th, "arbitrary")
    /\ driver = FirstFrame(1)

NextDetect ==
    \/ RecordObsCall({0})
    \/ DetectCall({MaxTime}, DistinctSeqs(Ids))

SpecDetect == InitDetect /\ [][NextDetect]_vars

\* The heat map side: the violations detect can build for the ids, in lists
\* of up to two, or None in place of the list; any mask and any buffer of
\* three pixels.
Violations ==
    {[kind |-> "PositionViolation", object_id |-> i, pred_pos |-> Origin,
      actual_pos |-> TwoX] : i \in Ids}
    \union {[kind |-> "PresenceViolation", object_id |-> i, pred_pos |-> Origin] : i \in Ids}

ViolationLists ==
    {[kind |-> "None", viols |-> <<>>]}
    \union {[kind |-> "list", viols |-> l] :
               l \in {<<>>} \union {<<v>> : v \in Violations}
                     \union {<<v, w>> : v \in Violations, w \in Violations}}

InitHeatmap == init(1, 1, 1, "stub") /\ driver = FirstFrame(1)

NextHeatmap ==
    \/ \E viols \in ViolationLists, obj_mask \in Masks : MakeVoeHeatmapCall(viols, obj_mask)
    \/ \E v \in Violations, hmap \in Buffers, obj_mask \in Masks :
          FillHeatmapCall(v, hmap, obj_mask)

SpecHeatmap == InitHeatmap /\ [][NextHeatmap]_vars

\* The recorded scenario: a detector with the callers' thresholds and a stub
\* predictor; object 1 is recorded present at the origin at the times below
\* ScenarioFrames, in any order, and detect is called for the time
\* ScenarioFrames with object 1 at any of Positions.
ScenarioTimes == 0 .. (ScenarioFrames - 1)

ScenarioRecord ==
    \E time \in ScenarioTimes :
        /\ record_obs(time, <<1>>, <<Origin>>, <<TRUE>>)
        /\ UNCHANGED driver

ScenarioDetect ==
    \E actual_pos \in Positions :
        /\ detect(ScenarioFrames, <<actual_pos>>, <<1>>)
        /\ UNCHANGED driver

InitScenario == init(MinHistCount, MaxHistCount, 1, "stub") /\ driver = FirstFrame(1)

NextScenario == ScenarioRecord \/ ScenarioDetect

SpecScenario == InitScenario /\ [][NextScenario]_vars

\* A caller running scene after scene, as VoeAgent.run_scene does, calling
\* detect and record_obs with the parameters they have in framewisevoe.py.
\* A scene has at least one frame, of object 1 or of no object; an exception
\* ends the run.  driver.step is how the last frame ended: "reported" when
\* make_step_prediction was called for it, "raised" when calc_voe raised.

plausible_str(violation_detected) ==
    IF violation_detected THEN "implausible" ELSE "plausible"

\* v.describe(): the sentence and what it is filled with.
describe(v) ==
    IF v.kind = "PositionViolation"
    THEN [text |-> "Object {} is at {}, but should be at {}", object_id |-> v.object_id,
          at |-> <<v.actual_pos>>, should |-> v.pred_pos]
    ELSE [text |-> "Object {} is not visible, but should be at {}",
          object_id |-> v.object_id, at |-> <<>>, should |-> v.pred_pos]

\* output_voe: the lines it prints.
output_voe(viols) ==
    LET viols_l == IF viols.kind = "None" \/ viols.viols = <<>> THEN <<>> ELSE viols.viols
    IN  [k \in DOMAIN viols_l |-> describe(viols_l[k])]

\* The mask of a frame: object 1, when the frame shows it, fills the pixel in
\* the middle.
FrameMask(obj_ids) ==
    [k \in 1 .. 3 |-> IF k = 2 /\ 1 \in Range(obj_ids) THEN 1 ELSE -1]

\* run_scene that keeps the detector of the scene before.
run_scene_reusing ==
    /\ driver.scene < MaxScenes
    /\ driver.status = "ended"
    /\ call' = [op |-> "__init__", time |-> 0, actual_poss |-> <<>>, actual_ids |-> <<>>]
    /\ net_calls' = <<>>
    /\ pred_info' = NonePred
    /\ ret' = [kind |-> "returned", viols |-> <<>>]
    /\ driver' = FirstFrame(driver.scene + 1)
    /\ UNCHANGED state

\* VoeAgent.run_scene up to its loop, called when the scene before has ended:
\* self.detector becomes a new FramewiseVOE, built as __init__ builds it.
run_scene ==
    /\ driver.scene < MaxScenes
    /\ driver.status = "ended"
    /\ frame_history' = <<>>
    /\ all_ids' = {}
    /\ dist_thresh' = 1
    /\ min_hist_count' = MinHistCount
    /\ max_hist_count' = MaxHistCount
    /\ net' = "stub"
    /\ call' = [op |-> "__init__", time |-> 0, actual_poss |-> <<>>, actual_ids |-> <<>>]
    /\ net_calls' = <<>>
    /\ pred_info' = NonePred
    /\ ret' = [kind |-> "returned", viols |-> <<>>]
    /\ driver' = FirstFrame(driver.scene + 1)

\* calc_voe raised: no verdict, no report.
raised(d, viols, voe_hmap, printed) ==
    [d EXCEPT !.status = "raised", !.step = "raised", !.viols = viols,
              !.voe_hmap = voe_hmap, !.printed = printed, !.choice = ""]

\* loop_body that goes on with the frame_num it had.
loop_body_sameframe(d, viols, voe_detected, voe_hmap, printed) ==
    [d EXCEPT !.scene_voe_detected = @ \/ voe_detected,
              !.verdicts = Append(@, voe_detected),
              !.step = "reported", !.viols = viols, !.voe_hmap = voe_hmap,
              !.printed = printed, !.choice = plausible_str(voe_detected)]

\* loop_body that keeps the verdict of the last step as the scene's.
loop_body_lastverdict(d, viols, voe_detected, voe_hmap, printed) ==
    [d EXCEPT !.frame_num = @ + 1,
              !.scene_voe_detected = voe_detected,
              !.verdicts = Append(@, voe_detected),
              !.step = "reported", !.viols = viols, !.voe_hmap = voe_hmap,
              !.printed = printed, !.choice = plausible_str(voe_detected)]

\* The body of run_scene's loop once calc_voe returned voe_detected and the
\* heat map: the scene's verdict, the choice handed to make_step_prediction,
\* and on to the next frame_num.
loop_body(d, viols, voe_detected, voe_hmap, printed) ==
    [d EXCEPT !.frame_num = @ + 1,
              !.scene_voe_detected = @ \/ voe_detected,
              !.verdicts = Append(@, voe_detected),
              !.step = "reported", !.viols = viols, !.voe_hmap = voe_hmap,
              !.printed = printed, !.choice = plausible_str(voe_detected)]

\* The frame's detect call: the frame shows object 1 or no object.  An
\* exception of detect leaves calc_voe and run_scene.
FrameDetect ==
    /\ driver.status = "running"
    /\ call.op \in {"__init__", "record_obs"}
    /\ driver.frame_num < ScenarioFrames
    /\ \E obj_ids \in {<<>>, <<1>>} :
          \E obj_pos \in [DOMAIN obj_ids -> {Origin, TwoX}] :
              detect(driver.frame_num, obj_pos, obj_ids)
    /\ driver' = IF ret'.kind = "Exception"
                 THEN raised(driver, ret', NoneValue, <<>>)
                 ELSE driver

\* The rest of calc_voe and of the loop's body: make_voe_heatmap and
\* output_voe on what detect returned, the frame's record_obs call with the
\* ids and positions detect was given, the verdict, Image.fromarray (which
\* raises on None), make_step_prediction.
FrameRecord ==
    /\ driver.status = "running"
    /\ call.op = "detect"
    /\ LET viols == ret
           voe_hmap == make_voe_heatmap(viols, FrameMask(call.actual_ids))
           printed == output_voe(viols)
           voe_detected == viols.kind # "None" /\ Len(viols.viols) > 0
       IN  IF voe_hmap.kind = "TypeError"
           THEN /\ call' = [op |-> "make_voe_heatmap", viols |-> viols,
                            obj_mask |-> FrameMask(call.actual_ids)]
                /\ ret' = voe_hmap
                /\ net_calls' = <<>>
                /\ pred_info' = NonePred
                /\ driver' = raised(driver, viols, voe_hmap, <<>>)
                /\ UNCHANGED state
           ELSE /\ \E obj_present \in [DOMAIN call.actual_ids -> BOOLEAN] :
                      record_obs(driver.frame_num, call.actual_ids, call.actual_poss,
                                 obj_present)
                /\ driver' = IF ret'.kind = "AssertionError" \/ voe_hmap.kind = "None"
                             THEN raised(driver, viols, voe_hmap, printed)
                             ELSE loop_body(driver, viols, voe_detected, voe_hmap, printed)

\* The loop is over: end_scene is called with the scene's verdict.
end_scene ==
    /\ driver.status = "running"
    /\ call.op = "record_obs"
    /\ driver' = [driver EXCEPT !.status = "ended",
                                !.end_choice = plausible_str(driver.scene_voe_detected)]
    /\ UNCHANGED <<state, call, net_calls, pred_info, ret>>

InitScenes == init(MinHistCount, MaxHistCount, 1, "stub") /\ driver = FirstFrame(1)

NextScenes == run_scene \/ FrameDetect \/ FrameRecord \/ end_scene

SpecScenes == InitScenes /\ [][NextScenes]_vars

----------------------------------------------------------------------------
\* The vocabulary of the properties, read off the history directly.

\* The (frame, slot) places of the history.
Slots ==
    UNION {{<<f, k>> : k \in DOMAIN frame_history[f].ids} : f \in DOMAIN frame_history}

SlotObs(sl) ==
    [time |-> frame_history[sl[1]].time, id |-> frame_history[sl[1]].ids[sl[2]],
     pos |-> frame_history[sl[1]].pos[sl[2]]]

SlotPresent(sl) == frame_history[sl[1]].present[sl[2]]

\* The observations recorded with present = true, and with present = false.
PresentSet == {SlotObs(sl) : sl \in {x \in Slots : SlotPresent(x)}}

AbsentSet == {SlotObs(sl) : sl \in {x \in Slots : ~SlotPresent(x)}}

\* The number of present = true observations of id i over all recorded times.
PresentCount(i) == Cardinality({o \in PresentSet : o.id = i})

TimesRecorded == {frame_history[f].time : f \in DOMAIN frame_history}

\* An eligible id: an id with at least min_hist_count present observations
\* (and at least one: the filter knows only the ids it is given).
EligibleIds ==
    {i \in Ids : PresentCount(i) >= 1 /\ PresentCount(i) >= min_hist_count}

\* The History Filter's output on the current history.
Training == filter_inputs(PresentObs(frame_history), min_hist_count, max_hist_count)

Admitted(i) == {Training[k] : k \in {j \in DOMAIN Training : Training[j].id = i}}

AdmittedCount(i) == Cardinality({j \in DOMAIN Training : Training[j].id = i})

\* The violations of one kind the last call returned for id i.
ViolsOf(kind, i) ==
    SelectSeq(ret.viols, LAMBDA v : v.kind = kind /\ v.object_id = i)

\* The positions of the model lie on the x axis: their distance is the
\* difference of their x coordinates.
AxisDist(a, b) == IF a[1] >= b[1] THEN a[1] - b[1] ELSE b[1] - a[1]

\* The last call was a detect that came back with a list of violations.
Detected == call.op = "detect" /\ ret.kind = "list"

\* The k-th queried id got a prediction from the net.
HasPrediction(k) == k \in DOMAIN pred_info.ids /\ k <= Len(pred_info.pos)

----------------------------------------------------------------------------
\* C1: record_obs raises the precondition error (AssertionError) whenever its
\* time is already recorded, and the history never holds two frames for one
\* time.
C1_NoDuplicateTime ==
    /\ [](\A f, g \in DOMAIN frame_history :
             frame_history[f].time = frame_history[g].time => f = g)
    /\ [][(call'.op = "record_obs" /\ call'.time \in TimesRecorded)
              => ret'.kind = "AssertionError"]_vars

C1_Witness ==
    /\ call.op = "record_obs"
    /\ ret.kind = "AssertionError"
    /\ call.time \in TimesRecorded
    /\ Len(frame_history) = 2

\* C2: the filter's output holds at most max_hist_count entries per object
\* id, and none for an id with fewer than min_hist_count present observations.
C2_FilterCap ==
    \A i \in Ids :
        /\ AdmittedCount(i) <= max_hist_count
        /\ PresentCount(i) < min_hist_count => AdmittedCount(i) = 0

C2_Witness ==
    /\ call.op = "detect"
    /\ net_calls # <<>>
    /\ \E i, j \in Ids :
          /\ max_hist_count >= 1
          /\ PresentCount(i) > max_hist_count
          /\ AdmittedCount(i) = max_hist_count
          /\ PresentCount(j) >= 1
          /\ PresentCount(j) < min_hist_count
          /\ AdmittedCount(j) = 0

\* C3: for every eligible id the filter admits exactly its
\* min(present count, max_hist_count) most recent observations: no present
\* observation of the id it leaves out is later than one it admits, and it
\* admits only observations of the history, each once.
C3_MostRecent ==
    /\ \A k \in DOMAIN Training : Training[k] \in PresentSet
    /\ \A j, k \in DOMAIN Training : Training[j] = Training[k] => j = k
    /\ \A i \in Ids :
          PresentCount(i) >= min_hist_count =>
              /\ AdmittedCount(i) = Min(PresentCount(i), max_hist_count)
              /\ \A o \in {x \in PresentSet : x.id = i} \ Admitted(i) :
                     \A a \in Admitted(i) : o.time <= a.time

C3_Witness ==
    /\ call.op = "detect"
    /\ net_calls # <<>>
    /\ Len(frame_history) = 2
    /\ frame_history[1].time > frame_history[2].time
    /\ \E i \in EligibleIds :
          /\ max_hist_count = 1
          /\ PresentCount(i) = 2
          /\ \A a \in Admitted(i) : a.time = frame_history[1].time

\* C4: when no id is eligible, detect returns None and does not invoke the
\* predictor.
C4_NoEligibleNoPrediction ==
    (call.op = "detect" /\ EligibleIds = {}) =>
        (ret.kind = "None" /\ net_calls = <<>>)

C4_Witness ==
    /\ call.op = "detect"
    /\ EligibleIds = {}
    /\ \E i \in Ids : PresentCount(i) >= 1
    /\ AbsentSet # {}
    /\ ret.kind = "None"

\* C5: for a relevant predicted id that is among actual_ids, detect returns
\* one PositionViolation(id, predicted, actual) if the distance between the
\* predicted and the actual position is greater than dist_thresh, and none if
\* it is equal or smaller.
C5_ThresholdBoundary ==
    Detected =>
        \A k \in DOMAIN pred_info.ids :
            (HasPrediction(k) /\ pred_info.mask[k]
                /\ pred_info.ids[k] \in Range(call.actual_ids)) =>
            LET id == pred_info.ids[k]
                p == pred_info.pos[k]
                a == call.actual_poss[Index(call.actual_ids, id)]
            IN  ViolsOf("PositionViolation", id) =
                    IF AxisDist(p, a) > dist_thresh
                    THEN <<[kind |-> "PositionViolation", object_id |-> id,
                            pred_pos |-> p, actual_pos |-> a]>>
                    ELSE <<>>

C5_Witness ==
    /\ Detected
    /\ dist_thresh = 1
    /\ \E k \in DOMAIN pred_info.ids :
          /\ HasPrediction(k)
          /\ pred_info.mask[k]
          /\ pred_info.ids[k] \in Range(call.actual_ids)
          /\ AxisDist(pred_info.pos[k],
                      call.actual_poss[Index(call.actual_ids, pred_info.ids[k])]) = 1
          /\ ViolsOf("PositionViolation", pred_info.ids[k]) = <<>>

\* C6: an id of the registry with eligible history that got a prediction and
\* is not among actual_ids yields exactly one PresenceViolation, which carries
\* the predicted position, and no PositionViolation.
C6_PresenceViolation ==
    Detected =>
        \A k \in DOMAIN pred_info.ids :
            LET id == pred_info.ids[k]
            IN  (HasPrediction(k) /\ id \in all_ids /\ id \in EligibleIds
                    /\ max_hist_count >= 1 /\ id \notin Range(call.actual_ids)) =>
                /\ ViolsOf("PresenceViolation", id) =
                       <<[kind |-> "PresenceViolation", object_id |-> id,
                          pred_pos |-> pred_info.pos[k]]>>
                /\ ViolsOf("PositionViolation", id) = <<>>

C6_Witness ==
    /\ Detected
    /\ \E k \in DOMAIN pred_info.ids :
          /\ HasPrediction(k)
          /\ pred_info.ids[k] \in EligibleIds
          /\ pred_info.ids[k] \notin Range(call.actual_ids)
          /\ call.actual_ids # <<>>
          /\ Len(ViolsOf("PresenceViolation", pred_info.ids[k])) = 1

\* C7: the relevance mask predict returns is true exactly at the ids of the
\* training data given to the predictor, and detect returns no violation of
\* either kind for an id of the registry without eligible history.
C7_RelevanceMask ==
    (call.op = "detect" /\ pred_info.kind = "tuple") =>
        /\ DOMAIN pred_info.mask = DOMAIN pred_info.ids
        /\ \A k \in DOMAIN pred_info.ids :
              pred_info.mask[k] <=> pred_info.ids[k] \in Range(net_calls[1].obj_ids)
        /\ \A k \in DOMAIN pred_info.ids :
              ~pred_info.mask[k] =>
                  \A v \in Range(ret.viols) : v.object_id # pred_info.ids[k]
        /\ \A i \in all_ids \ EligibleIds :
              \A v \in Range(ret.viols) : v.object_id # i

C7_Witness ==
    /\ Detected
    /\ \E j, k \in DOMAIN pred_info.ids :
          /\ HasPrediction(j)
          /\ HasPrediction(k)
          /\ ~pred_info.mask[j]
          /\ pred_info.ids[j] \notin EligibleIds
          /\ pred_info.ids[j] \notin Range(call.actual_ids)
          /\ pred_info.mask[k]
          /\ \E v \in Range(ret.viols) : v.object_id = pred_info.ids[k]

\* C8: the registry is the union of the ids passed to the record_obs calls
\* that were recorded, whatever their present flags, and it never shrinks.
C8_RegistryUnion ==
    /\ [](all_ids = UNION {Range(frame_history[f].ids) : f \in DOMAIN frame_history})
    /\ [][all_ids \subseteq all_ids']_vars

C8_Witness ==
    /\ Len(frame_history) = 2
    /\ \E i \in all_ids :
          /\ PresentCount(i) = 0
          /\ i \notin Range(frame_history[1].ids)
    /\ Cardinality(all_ids) = 2

\* C9: an observation recorded with present = false is not in the training
\* data given to the predictor and does not count towards min_hist_count,
\* but its id is in the registry and in the query set.
C9_AbsentObservations ==
    /\ \A o \in AbsentSet : o.id \in all_ids
    /\ (call.op = "detect" /\ net_calls # <<>>) =>
          LET q == net_calls[1]
          IN  /\ \A k \in DOMAIN q.obj_ids :
                    /\ [time |-> q.obj_ts[k], id |-> q.obj_ids[k],
                        pos |-> q.obj_pos[k]] \in PresentSet
                    /\ \A o \in AbsentSet :
                           ~(o.time = q.obj_ts[k] /\ o.id = q.obj_ids[k])
                    /\ PresentCount(q.obj_ids[k]) >= min_hist_count
              /\ \A o \in AbsentSet : o.id \in Range(q.tgt_ids)

C9_Witness ==
    /\ call.op = "detect"
    /\ net_calls # <<>>
    /\ min_hist_count = 2
    /\ \E o \in AbsentSet :
          /\ PresentCount(o.id) = 1
          /\ o.id \notin Range(net_calls[1].obj_ids)
          /\ o.id \in Range(net_calls[1].tgt_ids)

\* C10: a detect call leaves the history, the registry and the thresholds as
\* they were, whatever it returns.
C10_DetectReadOnly ==
    [][call'.op = "detect" =>
          /\ frame_history' = frame_history
          /\ all_ids' = all_ids
          /\ dist_thresh' = dist_thresh
          /\ min_hist_count' = min_hist_count
          /\ max_hist_count' = max_hist_count]_vars

C10_Witness ==
    /\ Detected
    /\ ret.viols # <<>>
    /\ frame_history # <<>>
    /\ Range(call.actual_ids) \ all_ids # {}

\* C11: the query set detect(time, ...) gives the predictor holds every id of
\* the registry exactly once and no other id, whether or not the id has
\* eligible history, and pairs each of them with the query time.
C11_QuerySet ==
    (call.op = "detect" /\ net_calls # <<>>) =>
        LET q == net_calls[1]
        IN  /\ Range(q.tgt_ids) = all_ids
            /\ Len(q.tgt_ids) = Cardinality(all_ids)
            /\ DOMAIN q.tgt_ts = DOMAIN q.tgt_ids
            /\ \A k \in DOMAIN q.tgt_ts : q.tgt_ts[k] = call.time

C11_Witness ==
    /\ call.op = "detect"
    /\ net_calls # <<>>
    /\ Len(net_calls[1].tgt_ids) = 2
    /\ \E i \in Range(net_calls[1].tgt_ids) :
          /\ PresentCount(i) = 0
          /\ i \notin Range(net_calls[1].obj_ids)
    /\ call.time \notin TimesRecorded

\* C12: a detect call whose filtered training data is not empty invokes the
\* predictor exactly once, with the filter's output as the training triple
\* and the registry as the query set, and what predict returns is aligned
\* with the query of that one invocation; a detect call whose filtered
\* training data is empty does not invoke it.
C12_OneInvocation ==
    call.op = "detect" =>
        IF Training = <<>> THEN net_calls = <<>>
        ELSE /\ Len(net_calls) = 1
             /\ net_calls[1].obj_pos = [k \in DOMAIN Training |-> Training[k].pos]
             /\ net_calls[1].obj_ts = [k \in DOMAIN Training |-> Training[k].time]
             /\ net_calls[1].obj_ids = [k \in DOMAIN Training |-> Training[k].id]
             /\ Range(net_calls[1].tgt_ids) = all_ids
             /\ pred_info.kind = "tuple" => pred_info.ids = net_calls[1].tgt_ids

C12_Witness ==
    /\ call.op = "detect"
    /\ Len(net_calls) = 1
    /\ Len(Training) = 3
    /\ Cardinality(all_ids) = 2
    /\ ret.kind = "list"

\* C13: make_voe_heatmap over any list of violations, PositionViolations and
\* PresenceViolations mixed, returns a boolean buffer of the mask's shape in
\* which a pixel is true exactly when some PositionViolation of the list has
\* the mask's value at that pixel as its object_id.
C13_Aggregation ==
    (call.op = "make_voe_heatmap" /\ call.viols.kind = "list") =>
        /\ ret.kind = "ndarray"
        /\ DOMAIN ret.px = DOMAIN call.obj_mask
        /\ \A k \in DOMAIN call.obj_mask :
              ret.px[k] <=>
                  \E v \in Range(call.viols.viols) :
                      v.kind = "PositionViolation" /\ v.object_id = call.obj_mask[k]

\* C14: PresenceViolation.fill_heatmap returns the buffer it was given, with
\* every pixel unchanged, for every buffer and mask.
C14_PresenceNoEffect ==
    (call.op = "fill_heatmap" /\ call.v.kind = "PresenceViolation") => ret = call.hmap

\* C15: make_voe_heatmap of an empty list, or of None in place of a list,
\* returns a buffer of the mask's shape with every pixel false.
C15_EmptyAggregation ==
    (call.op = "make_voe_heatmap"
         /\ (call.viols.kind = "None" \/ call.viols.viols = <<>>)) =>
        /\ ret.kind = "ndarray"
        /\ DOMAIN ret.px = DOMAIN call.obj_mask
        /\ \A k \in DOMAIN ret.px : ~ret.px[k]

C15_Witness ==
    /\ call.op = "make_voe_heatmap"
    /\ call.viols.kind = "None"
    /\ ret.kind = "ndarray"
    /\ Len(ret.px) = 3
    /\ \E k \in DOMAIN call.obj_mask : call.obj_mask[k] \in Ids

\* C16: when the predictor answers a position sequence whose length differs
\* from the query's, detect ends in an error and returns no violation list
\* built from the misaligned prediction.
C16_ShapeMismatchRejected ==
    (call.op = "detect" /\ pred_info.kind = "tuple"
         /\ Len(pred_info.pos) # Len(net_calls[1].tgt_ids)) => ret.kind # "list"

\* C17: when the invocation of the predictor raises, detect returns
\* "undeterminable" (None) and the exception does not leave detect.
C17_PredictorFailureCaught ==
    (call.op = "detect" /\ pred_info.kind = "Exception") => ret.kind = "None"

\* C20: the violations detect returns are in the order in which their ids
\* appear in the predictor's id sequence, one violation at most per id of
\* that sequence.
C20_ViolationOrder ==
    Detected =>
        /\ \A a \in DOMAIN ret.viols :
              \E j \in DOMAIN pred_info.ids : pred_info.ids[j] = ret.viols[a].object_id
        /\ \A a, b \in DOMAIN ret.viols :
              a < b =>
                  Index(pred_info.ids, ret.viols[a].object_id)
                      < Index(pred_info.ids, ret.viols[b].object_id)

C20_Witness ==
    /\ Detected
    /\ Len(ret.viols) = 2
    /\ ret.viols[1].object_id > ret.viols[2].object_id
    /\ ret.viols[1].kind = "PresenceViolation"
    /\ ret.viols[2].kind = "PositionViolation"
    /\ pred_info.ids = <<ret.viols[1].object_id, ret.viols[2].object_id>>

\* C18: with min_hist_count 3, max_hist_count 8 and dist_thresh 0.5, after
\* object 1 was recorded present at (0,0,0) at the times 0..4 and with a
\* predictor that answers (0,0,0), detect(5, [(1,0,0)], [1]) returns exactly
\* one violation, PositionViolation(1, predicted (0,0,0), actual (1,0,0)).
C18_EndToEnd ==
    (/\ call = [op |-> "detect", time |-> ScenarioFrames,
                actual_poss |-> <<TwoX>>, actual_ids |-> <<1>>]
     /\ TimesRecorded = ScenarioTimes) =>
        ret = [kind |-> "list",
               viols |-> <<[kind |-> "PositionViolation", object_id |-> 1,
                            pred_pos |-> Origin, actual_pos |-> TwoX]>>]

C18_Witness ==
    /\ call.op = "detect"
    /\ call.actual_poss = <<TwoX>>
    /\ [k \in DOMAIN frame_history |-> frame_history[k].time]
           = [k \in 1 .. ScenarioFrames |-> k - 1]
    /\ min_hist_count = MinHistCount
    /\ max_hist_count = MaxHistCount
    /\ dist_thresh = 1
    /\ Len(ret.viols) = 1

\* C19: a scene starts with a new detector: at its start the history and the
\* registry are empty, the history only ever holds the frames of the running
\* scene, and no record_obs of a scene, the one for time 0 included, raises
\* the duplicate-time error.
C19_FreshDetectorPerScene ==
    /\ []((call.op = "__init__") => (frame_history = <<>> /\ all_ids = {}))
    /\ [](driver.status # "raised" => TimesRecorded = 0 .. (driver.frame_num - 1))
    /\ [](ret.kind # "AssertionError")
    /\ [][driver'.scene # driver.scene => (frame_history' = <<>> /\ all_ids' = {})]_vars

C19_Witness ==
    /\ driver.scene = 2
    /\ call.op = "record_obs"
    /\ call.time = 0
    /\ ret.kind = "returned"
    /\ frame_history = <<[time |-> 0, ids |-> <<1>>, pos |-> <<Origin>>,
                          present |-> <<TRUE>>]>>

\* The frames of a history h that show id i present, and i's eligibility in h.
PresentFrames(h, i) ==
    {f \in DOMAIN h : \E k \in DOMAIN h[f].ids : h[f].ids[k] = i /\ h[f].present[k]}

EligibleIn(h, i) ==
    LET n == Cardinality(PresentFrames(h, i)) IN n >= 1 /\ n >= min_hist_count

\* The filter admits something: some id has at least min_hist_count present
\* observations and max_hist_count lets one in.
Determinable == EligibleIds # {} /\ max_hist_count >= 1

\* C23: an eligible id stays eligible after any further record_obs call, and
\* detect returns a list exactly when some id is eligible and max_hist_count
\* is at least 1: once a detect call returned a list, no later detect call on
\* the same detector returns None.
C23_DeterminabilityMonotone ==
    /\ [](call.op = "detect" => (ret.kind = "list" <=> Determinable))
    /\ [](call.op = "detect" => ret.kind \in {"list", "None"})
    /\ [](EligibleIds = {i \in Ids : EligibleIn(frame_history, i)})
    /\ [][/\ max_hist_count' = max_hist_count
          /\ min_hist_count' = min_hist_count
          /\ frame_history' # frame_history =>
                 \A i \in Ids :
                     EligibleIn(frame_history, i) => EligibleIn(frame_history', i)]_vars

C23_Witness ==
    /\ call.op = "detect"
    /\ ret.kind = "list"
    /\ Len(frame_history) = 2
    /\ min_hist_count = 1
    /\ \E i \in EligibleIds :
          /\ PresentCount(i) = 1
          /\ \E k \in DOMAIN frame_history[1].ids :
                frame_history[1].ids[k] = i /\ frame_history[1].present[k]
          /\ \E k \in DOMAIN frame_history[2].ids :
                frame_history[2].ids[k] = i /\ ~frame_history[2].present[k]

\* C24: a record_obs call that raises the duplicate-time error leaves the
\* detector as it was: the frame stored for the time is kept and no id of
\* the call enters the registry.
C24_RejectedRecordNoEffect ==
    [][(call'.op = "record_obs" /\ ret'.kind = "AssertionError")
           => /\ frame_history' = frame_history
              /\ all_ids' = all_ids
              /\ dist_thresh' = dist_thresh
              /\ min_hist_count' = min_hist_count
              /\ max_hist_count' = max_hist_count]_vars

C24_Witness ==
    /\ call.op = "record_obs"
    /\ ret.kind = "AssertionError"
    /\ Len(frame_history) = 1
    /\ all_ids = {}

\* C21: in the caller's loop every record_obs(t, ...) directly follows the
\* detect(t, ...) of its frame, detect is called for a time not yet recorded,
\* the training data detect gives the predictor holds only times below t,
\* and record_obs, called for a time above every recorded one, never raises
\* the duplicate-time error.
C21_DetectBeforeRecord ==
    /\ [][(call'.op = "record_obs" /\ driver'.status # "ended") =>
              (call.op = "detect" /\ call.time = call'.time)]_vars
    /\ [][call'.op = "detect" => call'.time \notin TimesRecorded]_vars
    /\ []((call.op = "detect" /\ net_calls # <<>>) =>
              \A k \in DOMAIN net_calls[1].obj_ts : net_calls[1].obj_ts[k] < call.time)
    /\ [][(call'.op = "record_obs" /\ driver'.status # "ended") =>
              /\ ret'.kind = "returned"
              /\ \A t \in TimesRecorded : t < call'.time]_vars

C21_Witness ==
    /\ call.op = "detect"
    /\ call.time = ScenarioFrames - 1
    /\ Len(net_calls) = 1
    /\ Range(net_calls[1].obj_ts) = 0 .. (ScenarioFrames - 2)
    /\ driver.scene = 2

\* C22: a frame is reported with choice "implausible" if and only if detect
\* returned a list that is not empty; when detect returned None the frame is
\* reported all the same, nothing is printed and the heat map is all false.
C22_UndeterminableIsNoViolation ==
    driver.step # "none" =>
        /\ (driver.step = "reported" /\ driver.choice = "implausible")
               <=> (driver.viols.kind = "list" /\ driver.viols.viols # <<>>)
        /\ driver.viols.kind = "None" =>
               /\ driver.step = "reported"
               /\ driver.choice = "plausible"
               /\ driver.printed = <<>>
               /\ driver.voe_hmap.kind = "ndarray"
               /\ \A k \in DOMAIN driver.voe_hmap.px : ~driver.voe_hmap.px[k]

\* C25: scene_voe_detected is the disjunction of the verdicts of the scene's
\* steps so far and never falls back to false within a scene, and end_scene
\* is called with "implausible" when some step of the scene detected a
\* violation and with "plausible" when none did.
C25_SceneVerdict ==
    /\ [](driver.scene_voe_detected
              <=> \E k \in DOMAIN driver.verdicts : driver.verdicts[k])
    /\ [](driver.status = "ended" =>
              driver.end_choice =
                  IF \E k \in DOMAIN driver.verdicts : driver.verdicts[k]
                  THEN "implausible" ELSE "plausible")
    /\ [][(driver'.scene = driver.scene /\ driver.scene_voe_detected)
              => driver'.scene_voe_detected]_vars

C25_Witness ==
    /\ driver.status = "ended"
    /\ driver.end_choice = "implausible"
    /\ Len(driver.verdicts) = ScenarioFrames
    /\ driver.verdicts[ScenarioFrames - 1]
    /\ ~driver.verdicts[ScenarioFrames]
    /\ driver.choice = "plausible"

====
